---- MODULE Spec2Model ----
(***************************************************************************)
(* bobo-cli: reconciliation of the "Sales $" figures of an aisle workbook  *)
(* against a point-of-sale CSV export (src/bobo-cli.py).                   *)
(*                                                                         *)
(* The run of main() is a state machine: one action per call main makes    *)
(* (the input check, backup_file, load_aisle_data, load_import_csv,        *)
(* merge_data, save_report).  An exception raised inside the try block of  *)
(* main is caught by its except clause: the raising action ends the run    *)
(* with pc = "failed" and records where it was raised.                     *)
(*                                                                         *)
(* Data.  A cell (of a worksheet, of a DataFrame) is a record              *)
(*   [k |-> kind, s |-> text, n |-> number]                                *)
(* with kind "str", "int", "float" (integral values only) or "nan" (an     *)
(* empty worksheet cell and pandas' NaN).  Money amounts are modelled as   *)
(* integers.  Python strings are TLA+ strings.                             *)
(***************************************************************************)
EXTENDS Integers, Sequences, FiniteSets, TLC

VARIABLES
    pc,               \* position of main: "start", "checked", "backed_up",
                      \* "aisle_loaded", "csv_loaded", "merged", "done",
                      \* "returned" (missing input), "failed" (except clause)
    excel_exists,     \* os.path.exists(args.excel_file)
    csv_exists,       \* os.path.exists(args.import_csv)
    workbook,         \* the input workbook: [names, sheets]
    csv_rows,         \* the rows pd.read_csv returns for the import CSV
    bak_created,      \* the .bak copy of the workbook exists
    out_dir_created,  \* the output directory exists
    updated_workbook, \* the file updated_<name>: [exists, saved, sheets]
    report,           \* the file report_<timestamp>.xlsx: [exists, table]
    sections,         \* aisle_data before pd.concat: the sections appended
    sheet_data,       \* sheet name -> DataFrame retained for save_report
    warnings,         \* sheets reported as skipped
    aisle_data,       \* all_aisle_data returned by load_aisle_data
    import_df,        \* the table returned by load_import_csv
    merged,           \* the table returned by merge_data
    failed_at         \* the function whose exception main caught, or "none"

vars == <<pc, excel_exists, csv_exists, workbook, csv_rows, bak_created,
          out_dir_created, updated_workbook, report, sections, sheet_data,
          warnings, aisle_data, import_df, merged, failed_at>>

-----------------------------------------------------------------------------
(* Bounds of the model. *)

\* columns of the selected sheet
MaxCols == 3
\* data rows of the selected sheet (below the header row)
MaxRows == 2
\* rows of the import CSV
MaxCsvRows == 2
-----------------------------------------------------------------------------
(* Cells. *)

StrCell(t) == [k |-> "str", s |-> t, n |-> 0]
IntCell(i) == [k |-> "int", s |-> "", n |-> i]
FloatCell(i) == [k |-> "float", s |-> "", n |-> i]
NaN == [k |-> "nan", s |-> "", n |-> 0]

\* pd.isnull / pd.notnull on a scalar
IsNull(c) == c.k = "nan"

-----------------------------------------------------------------------------
(* Python string operations. *)

Digits == "0123456789"
UpperAlpha == "ABCDEFGHIJKLMNOPQRSTUVWXYZ"
LowerAlpha == "abcdefghijklmnopqrstuvwxyz"
\* the characters the model's strings are made of, in code point order
Ascii == " #$-.0123456789ABCDEFGHIJKLMNOPQRSTUVWXYZabcdefghijklmnopqrstuvwxyz"

CharAt(s, i) == SubSeq(s, i, i)

\* `sub in s` for two strings
Contains(sub, s) ==
    \E i \in 1..(Len(s) - Len(sub) + 1) : SubSeq(s, i, i + Len(sub) - 1) = sub

\* s.startswith(p)
StartsWith(s, p) == Len(s) >= Len(p) /\ SubSeq(s, 1, Len(p)) = p

LowerChar(c) ==
    IF \E i \in 1..Len(UpperAlpha) : CharAt(UpperAlpha, i) = c
    THEN CharAt(LowerAlpha, CHOOSE i \in 1..Len(UpperAlpha) : CharAt(UpperAlpha, i) = c)
    ELSE c

RECURSIVE Lower(_)
\* s.lower()
Lower(s) == IF Len(s) = 0 THEN "" ELSE LowerChar(CharAt(s, 1)) \o Lower(SubSeq(s, 2, Len(s)))

RECURSIVE StripLeft(_)
StripLeft(s) == IF Len(s) > 0 /\ CharAt(s, 1) = " " THEN StripLeft(SubSeq(s, 2, Len(s))) ELSE s

RECURSIVE StripRight(_)
StripRight(s) ==
    IF Len(s) > 0 /\ CharAt(s, Len(s)) = " " THEN StripRight(SubSeq(s, 1, Len(s) - 1)) ELSE s

\* s.strip()
Strip(s) == StripRight(StripLeft(s))

IsDigit(c) == \E d \in 1..10 : CharAt(Digits, d) = c
DigitVal(c) == (CHOOSE d \in 1..10 : CharAt(Digits, d) = c) - 1
AllDigits(s) == Len(s) > 0 /\ \A i \in 1..Len(s) : IsDigit(CharAt(s, i))

RECURSIVE NatOfDigits(_)
NatOfDigits(s) ==
    IF Len(s) = 0 THEN 0
    ELSE 10 * NatOfDigits(SubSeq(s, 1, Len(s) - 1)) + DigitVal(CharAt(s, Len(s)))

RECURSIVE NatToStr(_)
NatToStr(i) ==
    IF i < 10 THEN CharAt(Digits, i + 1)
    ELSE NatToStr(i \div 10) \o CharAt(Digits, (i % 10) + 1)

\* str(i) for an int
IntToStr(i) == IF i < 0 THEN "-" \o NatToStr(-i) ELSE NatToStr(i)

\* str(f) for a float of integral value
FloatToStr(i) == IntToStr(i) \o ".0"

\* the unsigned part of an int literal, after strip() and an optional sign
IntBody(s) ==
    LET t == Strip(s)
    IN  IF Len(t) > 0 /\ CharAt(t, 1) \in {"+", "-"} THEN SubSeq(t, 2, Len(t)) ELSE t

\* int(s) for a string returns a value (otherwise it raises ValueError)
PyIntOk(s) == AllDigits(IntBody(s))

\* int(s) for a string, where PyIntOk(s)
PyInt(s) ==
    LET t == Strip(s)
    IN  IF CharAt(t, 1) = "-" THEN 0 - NatOfDigits(IntBody(s)) ELSE NatOfDigits(IntBody(s))

\* position of a character in code point order
CharOrd(c) == CHOOSE i \in 1..Len(Ascii) : CharAt(Ascii, i) = c

RECURSIVE StrLess(_, _)
\* a < b for two strings
StrLess(a, b) ==
    IF Len(b) = 0 THEN FALSE
    ELSE IF Len(a) = 0 THEN TRUE
    ELSE IF CharAt(a, 1) # CharAt(b, 1) THEN CharOrd(CharAt(a, 1)) < CharOrd(CharAt(b, 1))
    ELSE StrLess(SubSeq(a, 2, Len(a)), SubSeq(b, 2, Len(b)))

-----------------------------------------------------------------------------
(* Sequences. *)

RECURSIVE SeqSum(_)
SeqSum(s) == IF s = <<>> THEN 0 ELSE Head(s) + SeqSum(Tail(s))

RECURSIVE Flatten(_)
\* the concatenation of a sequence of sequences
Flatten(ss) == IF ss = <<>> THEN <<>> ELSE Head(ss) \o Flatten(Tail(ss))

-----------------------------------------------------------------------------
(* pd.read_excel(xls, sheet_name, header=1).                               *)
(* A worksheet is a sequence of rows of cells, row 1 first; all rows have  *)
(* the same width.  Row 2 is the header, the rows below it are the data.   *)

\* str() of the value of a header cell
HeaderText(c) ==
    CASE c.k = "str" -> c.s
      [] c.k = "int" -> IntToStr(c.n)
      [] c.k = "float" -> FloatToStr(c.n)
      [] OTHER -> ""

\* pandas' column names for a header row: an empty header is "Unnamed: <i>",
\* a repeated one gets the suffix ".<count>" (and is then a string).  A header
\* that already reads like a suffixed one ("X.1" beside two "X") is not among
\* the headers of the model.
ColumnNames(header) ==
    [i \in 1..Len(header) |->
        LET named == [j \in 1..Len(header) |->
                        IF IsNull(header[j])
                        THEN StrCell("Unnamed: " \o IntToStr(j - 1)) ELSE header[j]]
            count == Cardinality({j \in 1..(i - 1) : named[j] = named[i]})
        IN  IF count = 0 THEN named[i]
            ELSE StrCell(HeaderText(named[i]) \o "." \o IntToStr(count))]

\* the dtype pandas infers for a column of worksheet values
ColDtype(values) ==
    IF Len(values) = 0 \/ \E i \in 1..Len(values) : values[i].k = "str" THEN "object"
    ELSE IF \E i \in 1..Len(values) : values[i].k \in {"nan", "float"} THEN "float64"
    ELSE "int64"

\* a value as an element of a column of the given dtype
Cast(c, dtype) == IF dtype = "float64" /\ c.k = "int" THEN FloatCell(c.n) ELSE c

Column(rows, j) == [i \in 1..Len(rows) |-> rows[i][j]]

\* the value the reader returns for a worksheet cell: a numeric cell of
\* integral value is returned as an int
ReaderValue(c) == IF c.k = "float" THEN IntCell(c.n) ELSE c

header_row == 2

\* the position of the last cell of a row that is not empty, 0 when all are
LastCellWithData(row) ==
    IF \A c \in 1..Len(row) : IsNull(row[c]) THEN 0
    ELSE CHOOSE c \in 1..Len(row) :
            ~IsNull(row[c]) /\ \A d \in (c + 1)..Len(row) : IsNull(row[d])

\* the reader trims the empty rows that end the sheet
LastRowWithData(ws) ==
    IF \A r \in 1..Len(ws) : LastCellWithData(ws[r]) = 0 THEN 0
    ELSE CHOOSE r \in 1..Len(ws) :
            LastCellWithData(ws[r]) > 0 /\ \A q \in (r + 1)..Len(ws) : LastCellWithData(ws[q]) = 0

\* the reader trims the empty cells that end each row and extends the rows
\* to the widest of them
TrimmedWidth(ws) ==
    IF LastRowWithData(ws) = 0 THEN 0
    ELSE CHOOSE w \in 0..Len(ws[1]) :
            /\ \A r \in 1..Len(ws) : LastCellWithData(ws[r]) <= w
            /\ \E r \in 1..Len(ws) : LastCellWithData(ws[r]) = w

\* the sheets of the model hold a value in the header row or below it, so
\* that the header row is among the rows read
ReadExcel(ws) ==
    LET below == SubSeq(ws, header_row + 1, LastRowWithData(ws))
        width == TrimmedWidth(ws)
        data == [i \in 1..Len(below) |-> [j \in 1..width |-> ReaderValue(below[i][j])]]
    IN  [columns |-> ColumnNames([j \in 1..width |-> ReaderValue(ws[header_row][j])]),
         rows |-> [i \in 1..Len(data) |->
                     [j \in 1..width |-> Cast(data[i][j], ColDtype(Column(data, j)))]]]

-----------------------------------------------------------------------------
(* The section scan: the loop over enumerate(df.columns) that             *)
(* load_aisle_data, merge_data and save_report each carry, with their own  *)
(* marker for the identifier column.  `marker in col_name` raises          *)
(* TypeError when the column name is not a string.  The result is the      *)
(* positions (1-based) of the identifier columns of the sections found, in *)
(* the order found, and whether the loop ended by raising.                 *)

SalesMarker == "Sales $"

RECURSIVE ScanFrom(_, _, _, _)
ScanFrom(columns, marker, i, found) ==
    IF i > Len(columns) THEN [err |-> FALSE, found |-> found]
    ELSE IF columns[i].k # "str" THEN [err |-> TRUE, found |-> found]
    ELSE IF ~Contains(marker, columns[i].s) THEN ScanFrom(columns, marker, i + 1, found)
    ELSE IF ~(i + 1 <= Len(columns)) THEN ScanFrom(columns, marker, i + 1, found)
    ELSE IF columns[i + 1].k # "str" THEN [err |-> TRUE, found |-> found]
    ELSE IF Contains(SalesMarker, columns[i + 1].s)
         THEN ScanFrom(columns, marker, i + 1, Append(found, i))
    ELSE ScanFrom(columns, marker, i + 1, found)

RECURSIVE ScanNoSalesCheck(_, _, _, _)
\* the scan as it would be if the right neighbour were not tested for "Sales $"
ScanNoSalesCheck(columns, marker, i, found) ==
    IF i > Len(columns) THEN [err |-> FALSE, found |-> found]
    ELSE IF columns[i].k # "str" THEN [err |-> TRUE, found |-> found]
    ELSE IF Contains(marker, columns[i].s) /\ i + 1 <= Len(columns)
         THEN ScanNoSalesCheck(columns, marker, i + 1, Append(found, i))
    ELSE ScanNoSalesCheck(columns, marker, i + 1, found)

SectionScanNoSalesCheck(columns, marker) == ScanNoSalesCheck(columns, marker, 1, <<>>)

SectionScan(columns, marker) == ScanFrom(columns, marker, 1, <<>>)

\* df[[col_name, df.columns[sales_col_index]]].rename(...)
SectionOf(df, i) == [r \in 1..Len(df.rows) |-> [id |-> df.rows[r][i], amt |-> df.rows[r][i + 1]]]

-----------------------------------------------------------------------------
(* load_aisle_data *)

AisleMarker == "Mashgin ID #"

\* the sheet selection of load_aisle_data
IsSelected(sheet_name) == Lower(sheet_name) = "aisle 1"

RECURSIVE LoadSheets(_, _, _)
\* the loop over xls.sheet_names: acc is [sections, sheet_data, warnings]
LoadSheets(wb, k, acc) ==
    IF k > Len(wb.names) THEN acc
    ELSE LET name == wb.names[k]
         IN  IF ~IsSelected(name) THEN LoadSheets(wb, k + 1, acc)
             ELSE LET df == ReadExcel(wb.sheets[name])
                      scan == SectionScan(df.columns, AisleMarker)
                      secs == [x \in 1..Len(scan.found) |->
                                 [sheet |-> name, id_col |-> scan.found[x],
                                  rows |-> SectionOf(df, scan.found[x])]]
                  IN  LoadSheets(wb, k + 1,
                        [sections |-> acc.sections \o secs,
                         sheet_data |->
                            IF scan.err THEN acc.sheet_data
                            ELSE [n \in DOMAIN acc.sheet_data \cup {name} |->
                                    IF n = name THEN df ELSE acc.sheet_data[n]],
                         warnings |-> IF scan.err THEN Append(acc.warnings, name)
                                      ELSE acc.warnings])

NoSheets == [n \in {} |-> <<>>]

\* the dtype of a column of pd.concat from the dtypes of its parts
ConcatDtype(dtypes) ==
    IF "object" \in dtypes THEN "object"
    ELSE IF "float64" \in dtypes THEN "float64"
    ELSE "int64"

\* str(x) of an element, as Series.astype(str) does
AsStr(c) ==
    CASE c.k = "str" -> c.s
      [] c.k = "int" -> IntToStr(c.n)
      [] c.k = "float" -> FloatToStr(c.n)
      [] OTHER -> "nan"

\* pd.concat(aisle_data, ignore_index=True).dropna().reset_index(drop=True),
\* then astype(str) on "Mashgin ID"
ConcatSections(secs) ==
    LET all == Flatten([x \in 1..Len(secs) |-> secs[x].rows])
        id_dtype == ConcatDtype({ColDtype([r \in 1..Len(secs[x].rows) |-> secs[x].rows[r].id]) :
                                    x \in 1..Len(secs)})
        amt_dtype == ConcatDtype({ColDtype([r \in 1..Len(secs[x].rows) |-> secs[x].rows[r].amt]) :
                                    x \in 1..Len(secs)})
        kept == SelectSeq(all, LAMBDA row : ~IsNull(row.id) /\ ~IsNull(row.amt))
    IN  [r \in 1..Len(kept) |->
            [id |-> AsStr(Cast(kept[r].id, id_dtype)), amt |-> Cast(kept[r].amt, amt_dtype)]]

AisleColumns == <<"Mashgin ID", "Sales $">>

-----------------------------------------------------------------------------
(* load_import_csv, from the rows pd.read_csv returns: "Pos Id" is read    *)
(* with dtype str (a string, or NaN for an empty field), "Total" through   *)
(* convert_currency_to_float, "Count" as int.                              *)

\* the lambda applied to "Mashgin ID" raises ValueError on this value
NormalizeRaises(x) == ~IsNull(x) /\ x.s # "" /\ ~PyIntOk(x.s)

\* str(int(x)).strip() if pd.notnull(x) and x != "" else ""
NormalizeId(x) == IF ~IsNull(x) /\ x.s # "" THEN Strip(IntToStr(PyInt(x.s))) ELSE ""

RECURSIVE SortKeys(_)
\* the keys of a groupby, sorted
SortKeys(S) ==
    IF S = {} THEN <<>>
    ELSE LET m == CHOOSE x \in S : \A y \in S \ {x} : StrLess(x, y)
         IN  <<m>> \o SortKeys(S \ {m})

\* import_df["Mashgin ID"].duplicated().any()
HasDuplicates(rows) == \E i, j \in 1..Len(rows) : i < j /\ rows[i].id = rows[j].id

\* GroupBySum as it would be if the aggregation kept the first row of a group
GroupByFirst(rows) ==
    LET keys == SortKeys({rows[i].id : i \in 1..Len(rows)})
    IN  [g \in 1..Len(keys) |-> Head(SelectSeq(rows, LAMBDA row : row.id = keys[g]))]

\* import_df.groupby("Mashgin ID", as_index=False).agg({"Sales $": "sum", "Count": "sum"})
GroupBySum(rows) ==
    LET keys == SortKeys({rows[i].id : i \in 1..Len(rows)})
    IN  [g \in 1..Len(keys) |->
            LET grp == SelectSeq(rows, LAMBDA row : row.id = keys[g])
            IN  [id |-> keys[g],
                 amt |-> SeqSum([i \in 1..Len(grp) |-> grp[i].amt]),
                 count |-> SeqSum([i \in 1..Len(grp) |-> grp[i].count])]]

LoadImportCsvRaises(rows) == \E i \in 1..Len(rows) : NormalizeRaises(rows[i].pos_id)

LoadImportCsv(rows) ==
    LET renamed == [i \in 1..Len(rows) |->
                      [id |-> NormalizeId(rows[i].pos_id),
                       amt |-> rows[i].total, count |-> rows[i].count]]
    IN  IF HasDuplicates(renamed) THEN GroupBySum(renamed) ELSE renamed

-----------------------------------------------------------------------------
(* merge_data *)

MergeMarker == "Mashgin ID"
TotalSalesColumn == "Total Sales $"

\* pd.merge(left, right, on="Mashgin ID", how="left"): every left row, once per
\* right row of the same key, or once with a missing value when there is none
LeftMerge(left, right) ==
    Flatten([r \in 1..Len(left) |->
        LET m == SelectSeq(right, LAMBDA row : row.id = left[r].id)
        IN  IF m = <<>> THEN <<[id |-> left[r].id, amt |-> left[r].amt, upd |-> NaN]>>
            ELSE [x \in 1..Len(m) |->
                    [id |-> left[r].id, amt |-> left[r].amt, upd |-> FloatCell(m[x].amt)]]])

\* CombineFirst as it would be without the fall-back to the original amount
CombineFirstNoFallback(upd, amt) == upd

\* updated["Sales $_updated"].combine_first(updated["Sales $"]), a float64 column
CombineFirst(upd, amt) == IF ~IsNull(upd) THEN upd ELSE Cast(amt, "float64")

\* the section of merge_data is found in the columns of aisle_df
MergeFindsSection(columns) ==
    LET scan == SectionScan([i \in 1..Len(columns) |-> StrCell(columns[i])], MergeMarker)
    IN  scan.found = <<1>>

\* merged[...] = updated_section["Sales $"].values raises ValueError (length)
MergeDataRaises(aisle_rows, import_rows) ==
    /\ MergeFindsSection(AisleColumns)
    /\ Len(LeftMerge(aisle_rows, import_rows)) # Len(aisle_rows)

MergeData(aisle_rows, import_rows) ==
    LET updated == LeftMerge(aisle_rows, import_rows)
    IN  [columns |-> AisleColumns,
         rows |-> IF MergeFindsSection(AisleColumns)
                  THEN [r \in 1..Len(aisle_rows) |->
                          [id |-> aisle_rows[r].id,
                           amt |-> CombineFirst(updated[r].upd, updated[r].amt)]]
                  ELSE aisle_rows]

-----------------------------------------------------------------------------
(* save_report *)

ReportMarker == "Mashgin ID#"
Blank == StrCell("")

HasColumn(df, name) == \E i \in 1..Len(df.columns) : df.columns[i] = name

\* the sheets of sheet_data that save_report processes
IsAisle(sheet_name) == StartsWith(Lower(sheet_name), "aisle")

\* pd.merge(section, merged_df[["Mashgin ID", "Total Sales $"]], on="Mashgin ID",
\* how="left") for the section at column i: the rows of the key joined
SectionTotals(df, i, merged_df) ==
    Flatten([r \in 1..Len(df.rows) |->
        LET m == SelectSeq(merged_df.rows,
                           LAMBDA row : df.rows[r][i].k = "str" /\ row.id = df.rows[r][i].s)
        IN  IF m = <<>> THEN <<NaN>> ELSE [x \in 1..Len(m) |-> m[x].total]])

\* the update of one section raises: KeyError for the missing "Total Sales $"
\* column, ValueError for a merge of a numeric key column with the string keys
\* of merged_df, ValueError for an assignment of another length
SectionUpdateRaises(df, i, merged_df) ==
    \/ ~HasColumn(merged_df, TotalSalesColumn)
    \/ ColDtype(Column(df.rows, i)) # "object"
    \/ Len(SectionTotals(df, i, merged_df)) # Len(df.rows)

\* df[df.columns[sales_col_index]] = updated_section["Total Sales $"].fillna("").values
UpdateSection(df, i, merged_df) ==
    LET totals == SectionTotals(df, i, merged_df)
    IN  [df EXCEPT !.rows = [r \in 1..Len(df.rows) |->
            [df.rows[r] EXCEPT ![i + 1] = IF IsNull(totals[r]) THEN Blank ELSE totals[r]]]]

RECURSIVE UpdateSections(_, _, _)
\* the loop over the sections save_report finds in one sheet
UpdateSections(df, found, merged_df) ==
    IF found = <<>> THEN df
    ELSE UpdateSections(UpdateSection(df, Head(found), merged_df), Tail(found), merged_df)

\* the row the first data row is written to
first_written_row == 2

\* the loop over df.itertuples(index=False) with start=2: row k (0-based) of
\* the DataFrame is written to worksheet row 2 + k, all columns from column 1
WriteBack(ws, df) ==
    [r \in 1..Len(ws) |->
        IF r >= first_written_row /\ r - first_written_row + 1 <= Len(df.rows)
        THEN [c \in 1..Len(ws[r]) |->
                IF c <= Len(df.columns) THEN df.rows[r - first_written_row + 1][c] ELSE ws[r][c]]
        ELSE ws[r]]

\* processing one sheet of sheet_data raises
SheetRaises(df, merged_df) ==
    LET scan == SectionScan(df.columns, ReportMarker)
    IN  \/ \E x \in 1..Len(scan.found) : SectionUpdateRaises(df, scan.found[x], merged_df)
        \/ scan.err

SaveReportRaises(sheets, merged_df) ==
    \E name \in DOMAIN sheets : IsAisle(name) /\ SheetRaises(sheets[name], merged_df)

\* sheet_data after the loop of save_report (the DataFrames are updated in place)
UpdatedSheetData(sheets, merged_df) ==
    [name \in DOMAIN sheets |->
        IF IsAisle(name)
        THEN UpdateSections(sheets[name],
                            SectionScan(sheets[name].columns, ReportMarker).found, merged_df)
        ELSE sheets[name]]

\* the worksheets of the workbook that save_report saves
SavedSheets(wb_sheets, sheets, merged_df) ==
    [name \in DOMAIN wb_sheets |->
        IF name \in DOMAIN sheets /\ IsAisle(name)
        THEN WriteBack(wb_sheets[name], UpdatedSheetData(sheets, merged_df)[name])
        ELSE wb_sheets[name]]

-----------------------------------------------------------------------------
(* The inputs of a run. *)

HeaderCells ==
    {StrCell("Item"), StrCell("Mashgin ID #"), StrCell("Sales $"),
     StrCell("Mashgin ID#"), IntCell(2024), NaN}

DataCells == {NaN, IntCell(1), IntCell(2)}

IdCells == DataCells \cup {StrCell("A7"), FloatCell(1)}

SeqsUpTo(S, lo, hi) == UNION {[1..len -> S] : len \in lo..hi}

\* row 1 of a sheet: the decorative super-header
SuperHeader(width) == [c \in 1..width |-> IF c = 1 THEN StrCell("AISLE") ELSE NaN]

\* a worksheet from its header row and its data rows
Worksheet(header, data) == <<SuperHeader(Len(header)), header>> \o data

\* a sheet that is not an aisle sheet
PlainSheet == Worksheet(<<StrCell("Note")>>, <<<<StrCell("n/a")>>>>)

\* a workbook whose selected sheet (if any) is ws
Workbook(names, ws) ==
    [names |-> names,
     sheets |-> [n \in {names[i] : i \in 1..Len(names)} |->
                    IF IsSelected(n) THEN ws ELSE PlainSheet]]

SheetNameLists == {<<"Aisle 1">>, <<"Summary", "AISLE 1">>, <<"Aisle 2">>}

\* data rows that fill a sheet of the given width with numbers
FilledRows(width) ==
    [r \in 1..MaxRows |-> [c \in 1..width |-> IntCell(((r + c) % 2) + 1)]]

CsvRow(p, t, c) == [pos_id |-> p, total |-> t, count |-> c]

PosIds == {NaN, StrCell("1"), StrCell("01"), StrCell("2"), StrCell("2.0")}

CsvRowSet == {CsvRow(p, t, c) : p \in PosIds, t \in {5, 10}, c \in {1, 2}}

PlainCsv == <<CsvRow(StrCell("1"), 10, 1), CsvRow(StrCell("2"), 5, 2)>>

OneSection == <<StrCell("Mashgin ID #"), StrCell("Sales $")>>

\* every header layout, over filled sheets
LayoutInputs ==
    {<<Workbook(names, Worksheet(h, FilledRows(Len(h)))), PlainCsv>> :
        names \in SheetNameLists, h \in SeqsUpTo(HeaderCells, 1, MaxCols)}

\* every filling of a sheet of one section
CellInputs ==
    {<<Workbook(<<"Aisle 1">>,
                Worksheet(OneSection,
                          [r \in 1..Len(ids) |-> <<ids[r], amts[r]>>])), PlainCsv>> :
        ids \in SeqsUpTo(IdCells, MaxRows, MaxRows),
        amts \in SeqsUpTo(DataCells, MaxRows, MaxRows)}

\* every filling of the identifier columns of a sheet of two sections
TwoSectionInputs ==
    {<<Workbook(<<"Aisle 1">>,
                Worksheet(OneSection \o OneSection,
                          [r \in 1..Len(a) |-> <<a[r], IntCell(7), b[r], IntCell(8)>>])),
       PlainCsv>> :
        a \in SeqsUpTo(IdCells, MaxRows, MaxRows),
        b \in SeqsUpTo(DataCells, MaxRows, MaxRows)}

\* every import CSV, over a sheet of one section
CsvInputs ==
    {<<Workbook(<<"Aisle 1">>, Worksheet(OneSection, FilledRows(2))), rows>> :
        rows \in SeqsUpTo(CsvRowSet, 0, MaxCsvRows)}

\* a sheet with a section under each spelling of the identifier header
BothSpellings ==
    <<StrCell("Mashgin ID #"), StrCell("Sales $"), StrCell("Mashgin ID#"), StrCell("Sales $")>>

BothSpellingsInputs ==
    {<<Workbook(<<"Aisle 1">>, Worksheet(BothSpellings, [r \in 1..Len(ids) |->
                                 <<ids[r], IntCell(7), ids[r], IntCell(8)>>])), PlainCsv>> :
        ids \in SeqsUpTo(IdCells, 1, 1)}

Inputs ==
    LayoutInputs \cup CellInputs \cup TwoSectionInputs \cup CsvInputs \cup BothSpellingsInputs

NoFile == [exists |-> FALSE, saved |-> FALSE, sheets |-> NoSheets]
NoTable == [columns |-> <<>>, rows |-> <<>>]

Init ==
    /\ pc = "start"
    /\ excel_exists \in BOOLEAN
    /\ csv_exists \in BOOLEAN
    /\ \E in \in Inputs : workbook = in[1] /\ csv_rows = in[2]
    /\ bak_created = FALSE
    /\ out_dir_created = FALSE
    /\ updated_workbook = NoFile
    /\ report = [exists |-> FALSE, table |-> NoTable]
    /\ sections = <<>>
    /\ sheet_data = NoSheets
    /\ warnings = <<>>
    /\ aisle_data = <<>>
    /\ import_df = <<>>
    /\ merged = NoTable
    /\ failed_at = "none"

-----------------------------------------------------------------------------
(* main *)

\* InputsExist as it would be if only the workbook path were checked
InputsExistExcelOnly(e, c) == e

\* the two os.path.exists checks: main returns when an input is missing
InputsExist(e, c) == e /\ c

CheckInputs ==
    /\ pc = "start"
    /\ pc' = IF InputsExist(excel_exists, csv_exists) THEN "checked" ELSE "returned"
    /\ UNCHANGED <<excel_exists, csv_exists, workbook, csv_rows, bak_created,
                   out_dir_created, updated_workbook, report, sections, sheet_data,
                   warnings, aisle_data, import_df, merged, failed_at>>

\* backup_file(args.excel_file)
BackupFile ==
    /\ pc = "checked"
    /\ bak_created' = TRUE
    /\ pc' = "backed_up"
    /\ UNCHANGED <<excel_exists, csv_exists, workbook, csv_rows,
                   out_dir_created, updated_workbook, report, sections, sheet_data,
                   warnings, aisle_data, import_df, merged, failed_at>>

\* aisle_data, sheet_data = load_aisle_data(args.excel_file); pd.concat raises
\* ValueError when no section was appended
LoadAisleData ==
    /\ pc = "backed_up"
    /\ LET loaded == LoadSheets(workbook, 1,
                        [sections |-> <<>>, sheet_data |-> NoSheets, warnings |-> <<>>])
       IN  /\ sections' = loaded.sections
           /\ warnings' = loaded.warnings
           /\ IF loaded.sections = <<>>
              THEN /\ pc' = "failed"
                   /\ failed_at' = "load_aisle_data"
                   /\ UNCHANGED <<sheet_data, aisle_data>>
              ELSE /\ pc' = "aisle_loaded"
                   /\ sheet_data' = loaded.sheet_data
                   /\ aisle_data' = ConcatSections(loaded.sections)
                   /\ UNCHANGED failed_at
    /\ UNCHANGED <<excel_exists, csv_exists, workbook, csv_rows, bak_created,
                   out_dir_created, updated_workbook, report, import_df, merged>>

\* import_data = load_import_csv(args.import_csv)
LoadImport ==
    /\ pc = "aisle_loaded"
    /\ IF LoadImportCsvRaises(csv_rows)
       THEN /\ pc' = "failed"
            /\ failed_at' = "load_import_csv"
            /\ UNCHANGED import_df
       ELSE /\ pc' = "csv_loaded"
            /\ import_df' = LoadImportCsv(csv_rows)
            /\ UNCHANGED failed_at
    /\ UNCHANGED <<excel_exists, csv_exists, workbook, csv_rows, bak_created,
                   out_dir_created, updated_workbook, report, sections, sheet_data,
                   warnings, aisle_data, merged>>

\* merged = merge_data(aisle_data, import_data)
Merge ==
    /\ pc = "csv_loaded"
    /\ IF MergeDataRaises(aisle_data, import_df)
       THEN /\ pc' = "failed"
            /\ failed_at' = "merge_data"
            /\ UNCHANGED merged
       ELSE /\ pc' = "merged"
            /\ merged' = MergeData(aisle_data, import_df)
            /\ UNCHANGED failed_at
    /\ UNCHANGED <<excel_exists, csv_exists, workbook, csv_rows, bak_created,
                   out_dir_created, updated_workbook, report, sections, sheet_data,
                   warnings, aisle_data, import_df>>

\* save_report(merged, args.output_dir, args.excel_file, sheet_data)
SaveReport ==
    /\ pc = "merged"
    /\ out_dir_created' = TRUE
    /\ IF SaveReportRaises(sheet_data, merged)
       THEN /\ pc' = "failed"
            /\ failed_at' = "save_report"
            /\ updated_workbook' = [exists |-> TRUE, saved |-> FALSE, sheets |-> workbook.sheets]
            /\ UNCHANGED <<report, sheet_data>>
       ELSE /\ pc' = "done"
            /\ sheet_data' = UpdatedSheetData(sheet_data, merged)
            /\ updated_workbook' =
                  [exists |-> TRUE, saved |-> TRUE,
                   sheets |-> SavedSheets(workbook.sheets, sheet_data, merged)]
            /\ report' = [exists |-> TRUE, table |-> merged]
            /\ UNCHANGED failed_at
    /\ UNCHANGED <<excel_exists, csv_exists, workbook, csv_rows, bak_created,
                   sections, warnings, aisle_data, import_df, merged>>

Next == CheckInputs \/ BackupFile \/ LoadAisleData \/ LoadImport \/ Merge \/ SaveReport

Spec == Init /\ [][Next]_vars

-----------------------------------------------------------------------------
(* Positions of the run the properties speak about. *)

\* load_aisle_data has run (it returned, or raised)
AisleActed == pc \notin {"start", "returned", "checked", "backed_up"}

\* load_aisle_data has returned
AisleLoaded == AisleActed /\ failed_at # "load_aisle_data"

\* load_import_csv has returned
CsvLoaded == AisleLoaded /\ pc # "aisle_loaded" /\ failed_at # "load_import_csv"

\* merge_data has returned
MergeDone == CsvLoaded /\ pc # "csv_loaded" /\ failed_at # "merge_data"

\* save_report has run (it returned, or raised)
SaveActed == MergeDone /\ pc # "merged"

\* the sections load_aisle_data appended for a sheet: their identifier columns
LoaderPairs(name) ==
    LET of_sheet == SelectSeq(sections, LAMBDA sec : sec.sheet = name)
    IN  [x \in 1..Len(of_sheet) |-> of_sheet[x].id_col]

SelectedSheets == {n \in DOMAIN workbook.sheets : IsSelected(n)}

\* the column names pandas gives the sheet
SheetColumns(name) == ReadExcel(workbook.sheets[name]).columns

RECURSIVE SumOver(_, _, _)
\* the sum of field f of the rows at the indices S
SumOver(rows, S, f) ==
    IF S = {} THEN 0
    ELSE LET i == CHOOSE i \in S : TRUE IN rows[i][f] + SumOver(rows, S \ {i}, f)

-----------------------------------------------------------------------------
(* C1: merge_data is a total left join.  Whenever merge_data is called it  *)
(* returns; the table it returns has one row per row of the canonical fact *)
(* table, in the same order and with the same Identifier; the row's Amount *)
(* is the ledger's Amount when the ledger has a row of that Identifier,    *)
(* the row's original Amount otherwise, and is never missing.              *)
C1_MergeIsTotalLeftJoin ==
    /\ failed_at # "merge_data"
    /\ MergeDone =>
        /\ Len(merged.rows) = Len(aisle_data)
        /\ \A r \in 1..Len(aisle_data) :
            /\ ~IsNull(aisle_data[r].amt)
            /\ merged.rows[r].id = aisle_data[r].id
            /\ ~IsNull(merged.rows[r].amt)
            /\ IF \E x \in 1..Len(import_df) : import_df[x].id = aisle_data[r].id
               THEN \E x \in 1..Len(import_df) :
                        /\ import_df[x].id = aisle_data[r].id
                        /\ merged.rows[r].amt.n = import_df[x].amt
               ELSE merged.rows[r].amt.n = aisle_data[r].amt.n

\* a merge in which one row took the ledger's amount and another kept its own
C1_Witness ==
    /\ MergeDone
    /\ \E r, q \in 1..Len(aisle_data) :
        /\ \E x \in 1..Len(import_df) :
              import_df[x].id = aisle_data[r].id /\ import_df[x].amt # aisle_data[r].amt.n
        /\ \A x \in 1..Len(import_df) : import_df[x].id # aisle_data[q].id

(* C2: the table load_import_csv returns has exactly one row per distinct  *)
(* normalized Identifier of the rows read, and that row's Amount and Count *)
(* are the sums over the rows read that share the Identifier.              *)
C2_LedgerOneRowPerIdentifier ==
    CsvLoaded =>
        LET ids == {NormalizeId(csv_rows[i].pos_id) : i \in 1..Len(csv_rows)}
        IN  /\ \A x \in 1..Len(import_df) : import_df[x].id \in ids
            /\ \A id \in ids :
                LET src == {i \in 1..Len(csv_rows) : NormalizeId(csv_rows[i].pos_id) = id}
                    out == {x \in 1..Len(import_df) : import_df[x].id = id}
                IN  /\ Cardinality(out) = 1
                    /\ \A x \in out :
                        /\ import_df[x].amt = SumOver(csv_rows, src, "total")
                        /\ import_df[x].count = SumOver(csv_rows, src, "count")

\* two rows of the same Identifier (written "1" and "01") were collapsed
C2_Witness ==
    /\ CsvLoaded
    /\ Len(csv_rows) = 2
    /\ csv_rows[1].pos_id # csv_rows[2].pos_id
    /\ import_df = <<[id |-> "1", amt |-> 15, count |-> 3]>>

\* the header at column i of a sheet reads as an Identifier header
IsIdentifierHeader(cols, i) == cols[i].k = "str" /\ Contains("Mashgin ID #", cols[i].s)

\* the header at column i of a sheet reads as an Amount header
IsAmountHeader(cols, i) == cols[i].k = "str" /\ Contains("Sales $", cols[i].s)

\* the scan of the sheet ended by raising: the sheet was reported as skipped
ScanRaised(name) == \E w \in 1..Len(warnings) : warnings[w] = name

\* the first column whose name is not a string, Len(cols) + 1 when all are
FirstNonString(cols) ==
    IF \A i \in 1..Len(cols) : cols[i].k = "str" THEN Len(cols) + 1
    ELSE CHOOSE j \in 1..Len(cols) :
            cols[j].k # "str" /\ \A i \in 1..(j - 1) : cols[i].k = "str"

(* C3, as claimed: for every header sequence of a selected sheet the scan  *)
(* of load_aisle_data emits a Section for column i exactly when header i   *)
(* contains "Mashgin ID #" and header i+1 exists and contains "Sales $",   *)
(* in left-to-right order; an Identifier header whose right neighbour is   *)
(* not an Amount header yields no Section and no error.                    *)
C3_SectionAdjacencyEveryHeader ==
    AisleActed =>
        \A name \in SelectedSheets :
            LET cols == SheetColumns(name)
                found == LoaderPairs(name)
            IN  /\ {found[x] : x \in 1..Len(found)} =
                     {i \in 1..Len(cols) :
                        /\ IsIdentifierHeader(cols, i)
                        /\ i + 1 <= Len(cols)
                        /\ IsAmountHeader(cols, i + 1)}
                /\ \A x, y \in 1..Len(found) : x < y => found[x] < found[y]
                /\ \A i \in 1..Len(cols) :
                      (/\ IsIdentifierHeader(cols, i)
                       /\ i + 1 <= Len(cols) => ~IsAmountHeader(cols, i + 1)
                       /\ \A j \in 1..Len(cols) \ {i + 1} : cols[j].k = "str")
                      => ~ScanRaised(name)

(* C3, amended: the scan of load_aisle_data raises exactly when some       *)
(* column name of the sheet is not a string, and it emits a Section for    *)
(* column i, in left-to-right order, exactly when name i contains          *)
(* "Mashgin ID #", name i+1 exists and contains "Sales $", and every name  *)
(* up to i+1 is a string.  So with string names only, an Identifier header *)
(* whose right neighbour is not an Amount header (or that is the last      *)
(* column) yields no Section and no error.                                 *)
C3_SectionAdjacency ==
    AisleActed =>
        \A name \in SelectedSheets :
            LET cols == SheetColumns(name)
                found == LoaderPairs(name)
            IN  /\ ScanRaised(name) <=> FirstNonString(cols) <= Len(cols)
                /\ {found[x] : x \in 1..Len(found)} =
                     {i \in 1..Len(cols) :
                        /\ i + 1 < FirstNonString(cols)
                        /\ Contains("Mashgin ID #", cols[i].s)
                        /\ Contains("Sales $", cols[i + 1].s)}
                /\ \A x, y \in 1..Len(found) : x < y => found[x] < found[y]

\* a sheet of three columns with one Section at its first column, whose last
\* column is an identifier column without a right neighbour
C3_Witness ==
    /\ AisleLoaded
    /\ \E name \in SelectedSheets :
        LET cols == SheetColumns(name)
        IN  /\ Len(cols) = 3
            /\ \A i \in 1..3 : cols[i].k = "str"
            /\ Contains("Mashgin ID #", cols[3].s)
            /\ LoaderPairs(name) = <<1>>
            /\ ~ScanRaised(name)

(* C4: for every sheet the loader retained, save_report relocates exactly  *)
(* the column pairs the loader's scan found, and overwrites every row's    *)
(* Amount of each pair with the reconciled total of the row's Identifier,  *)
(* or with blank when the reconciled table has none.                       *)
C4_ReportOverwritesLoaderSections ==
    SaveActed =>
        \A name \in DOMAIN sheet_data :
            /\ SectionScan(sheet_data[name].columns, ReportMarker).found = LoaderPairs(name)
            /\ \A x \in 1..Len(LoaderPairs(name)) :
                \A r \in 1..Len(sheet_data[name].rows) :
                    LET i == LoaderPairs(name)[x]
                        key == AsStr(sheet_data[name].rows[r][i])
                        cell == sheet_data[name].rows[r][i + 1]
                    IN  IF \E q \in 1..Len(merged.rows) : merged.rows[q].id = key
                        THEN \E q \in 1..Len(merged.rows) :
                                /\ merged.rows[q].id = key
                                /\ ~IsNull(cell)
                                /\ cell.k # "str"
                                /\ cell.n = merged.rows[q].amt.n
                        ELSE cell = Blank

(* C5: when the workbook path or the CSV path does not exist, main ends    *)
(* without any mutation: no .bak file, no output directory, no updated     *)
(* workbook, no report.                                                    *)
C5_MissingInputNoMutation ==
    (~excel_exists \/ ~csv_exists) =>
        /\ pc \in {"start", "returned"}
        /\ ~bak_created
        /\ ~out_dir_created
        /\ ~updated_workbook.exists
        /\ ~report.exists

\* main has returned because the import CSV is missing
C5_Witness == pc = "returned" /\ excel_exists /\ ~csv_exists

(* C6: the table merge_data returns carries the column "Sales $" and the   *)
(* column "Total Sales $" that save_report selects.                        *)
C6_MergedCarriesTotalSales ==
    MergeDone =>
        /\ \E i \in 1..Len(merged.columns) : merged.columns[i] = "Sales $"
        /\ \E i \in 1..Len(merged.columns) : merged.columns[i] = TotalSalesColumn

\* the rows of the sections that survive dropna, in the order of the
\* canonical fact table
KeptCells ==
    SelectSeq(Flatten([x \in 1..Len(sections) |-> sections[x].rows]),
              LAMBDA row : ~IsNull(row.id) /\ ~IsNull(row.amt))

(* C7: every numeric Identifier cell of integral value is, in the          *)
(* canonical fact table, the decimal integer string of the number.         *)
C7_NumericIdentifierIsIntegerString ==
    AisleLoaded =>
        /\ Len(aisle_data) = Len(KeptCells)
        /\ \A r \in 1..Len(aisle_data) :
            KeptCells[r].id.k \in {"int", "float"} =>
                aisle_data[r].id = IntToStr(KeptCells[r].id.n)

\* the text of a numeral before its decimal point
RECURSIVE BeforePoint(_)
BeforePoint(s) ==
    IF Len(s) = 0 \/ CharAt(s, 1) = "." THEN "" ELSE CharAt(s, 1) \o BeforePoint(SubSeq(s, 2, Len(s)))

(* C8: load_import_csv never fails on a non-empty Identifier value: a      *)
(* value such as "2.0", "2" or "02" yields the Identifier "2", a missing   *)
(* value the empty Identifier.                                             *)
C8_IntegerRoundTripNeverFails ==
    (AisleLoaded /\ pc # "aisle_loaded") =>
        /\ failed_at # "load_import_csv"
        /\ {import_df[x].id : x \in 1..Len(import_df)} =
             {IF IsNull(csv_rows[i].pos_id) THEN ""
              ELSE IntToStr(PyInt(BeforePoint(csv_rows[i].pos_id.s))) : i \in 1..Len(csv_rows)}

\* two cells hold the same value (2 and 2.0 are the same number)
SameValue(a, b) ==
    IF a.k = "str" \/ b.k = "str" THEN a = b
    ELSE IsNull(a) = IsNull(b) /\ a.n = b.n

(* C9: save_report writes the k-th data row to the worksheet row it was    *)
(* loaded from, the header row is not overwritten, and every cell outside  *)
(* an overwritten Amount column holds the value it had in the input.       *)
C9_WriteBackKeepsPositions ==
    pc = "done" =>
        \A name \in DOMAIN sheet_data :
            LET before == workbook.sheets[name]
                after == updated_workbook.sheets[name]
                amount_cols == {LoaderPairs(name)[x] + 1 : x \in 1..Len(LoaderPairs(name))}
            IN  /\ after[header_row] = before[header_row]
                /\ \A k \in 1..Len(sheet_data[name].rows) :
                      \A c \in 1..Len(sheet_data[name].columns) :
                          SameValue(after[header_row + k][c], sheet_data[name].rows[k][c])
                /\ \A r \in 1..Len(before) :
                      \A c \in 1..Len(before[r]) \ amount_cols :
                          SameValue(after[r][c], before[r][c])

(* C10: a selected sheet whose scan raises is skipped as a whole: it       *)
(* contributes no Section and no Raw Sheet Table, a warning is reported,   *)
(* and the run is not aborted in load_aisle_data.                          *)
C10_FailingSheetIsSkipped ==
    AisleActed =>
        \A name \in SelectedSheets :
            SectionScan(SheetColumns(name), AisleMarker).err =>
                /\ \E w \in 1..Len(warnings) : warnings[w] = name
                /\ name \notin DOMAIN sheet_data
                /\ LoaderPairs(name) = <<>>
                /\ failed_at # "load_aisle_data"

====
